---- MODULE Spec2Model ----
(***************************************************************************)
(* Sharded sliding-window rate limiter (package ratelimit, ratelimit.go).  *)
(*                                                                         *)
(* The limiter is modelled as a set of goroutines over shared state:       *)
(*   - Callers     : goroutines that call tShardedLimiter.isAllowed        *)
(*   - the sweeper : the goroutine started by cleanupStart (cleanup)       *)
(*   - the reader  : a goroutine that calls GetMetrics                     *)
(* Every blocking point (Mutex.Lock) and every read of the clock is a      *)
(* separate step.  Time is an integer number of seconds; window lengths    *)
(* are whole seconds.  The weighted count is computed as the code does,    *)
(* in float64 arithmetic, which is carried out on binary digit strings.    *)
(***************************************************************************)
EXTENDS Integers, Sequences, FiniteSets, TLC

\* ---------------------------------------------------------------- bounds
\* last value of the clock
MaxTime == 5
\* number of operations (isAllowed calls, sweeps, GetMetrics calls) started
\* in one behaviour
MaxOps == 3
\* maxRequests is drawn from 0 .. MaxReq at construction
MaxReq == 2
\* aDuration handed to newShardedLimiter, in seconds
windowDuration == 2
\* entries of an X-Forwarded-For value, at most
MaxEntries == 2
\* longest window, in seconds, of the limiters whose in-window branch is
\* run on its own
MaxWindow == 5
\* largest maxRequests of those limiters
MaxLimit == 5
\* isAllowed calls in one behaviour of the limiter that is called by one
\* goroutine
MaxCalls == 4

\* ------------------------------------------------------- program constants
\* shards [256]*tSlidingWindowShard
NumShards == 256
\* significant binary digits of a float64 (weightPrev, float64(prevCount))
MantissaBits == 53

\* cleanupInterval: aDuration * 2
cleanupInterval == windowDuration * 2

\* ------------------------------------------------------------------- keys
\* Client keys are byte strings; "12" and "21" route to the same shard,
\* "1" to another one.
Keys == { <<49>>, <<49, 50>>, <<50, 49>> }

Callers == { "t1", "t2" }

NoOwner == "none"

\* ---------------------------------------------------------------- helpers
\* the loop of getShard: sum += int(aIP[i]) for i in 0 .. len(aIP)-1
RECURSIVE SumBytes(_, _)
SumBytes(aIP, i) ==
    IF i > Len(aIP) THEN 0 ELSE aIP[i] + SumBytes(aIP, i + 1)

\* a router that looks at the first byte only
getShardFirstByte(aIP) == aIP[1] % NumShards

\* getShard: sl.shards[sum%256] (the index of the shard returned)
getShard(aIP) == SumBytes(aIP, 1) % NumShards

\* the shards some key of Keys routes to
UsedShards == { getShard(k) : k \in Keys }

\* `for _, sws := range sl.shards`, continued at index i: the next shard
\* whose iteration can be told apart from a stuttering step.  A shard no key
\* of Keys routes to has an empty map and a lock no isAllowed call ever
\* takes, so its iteration (lock, nothing, unlock) changes nothing.
NextShard(i) ==
    LET rest == { j \in UsedShards : j >= i }
    IN  IF rest = {} THEN NumShards
        ELSE CHOOSE j \in rest : \A l \in rest : j <= l

\* counter = &tSlidingWindowCounter{currentCount: 1, windowStart: now}
\* with the counts swapped
NewCounterSwapped(aNow) ==
    [ mu |-> NoOwner, prevCount |-> 1, currentCount |-> 0, windowStart |-> aNow ]

\* counter = &tSlidingWindowCounter{currentCount: 1, windowStart: now}
NewCounter(aNow) ==
    [ mu |-> NoOwner, prevCount |-> 0, currentCount |-> 1, windowStart |-> aNow ]

\* delete(sws.clients, aIP)
MapDelete(m, k) == [ x \in (DOMAIN m) \ {k} |-> m[x] ]

\* shard.clients[aIP] = counter
MapPut(m, k, c) == [ x \in (DOMAIN m) \cup {k} |-> IF x = k THEN c ELSE m[x] ]

\* the empty tClientList made by newShard
EmptyClients == [ x \in {} |-> NewCounter(0) ]

\* ------------------------------------------------------ float64 arithmetic
\* binary digits kept before the point: the values are below 2^IntBits
IntBits == 8
\* binary digits kept after the point: enough for the MantissaBits
\* significant digits of a quotient elapsed/windowDuration >= 2^-10
FracBits == 64
\* digits worked on at a time by the subtraction and the multiplication
LimbBits == 18

\* A float64 value v >= 0 is held as the digit string of its binary
\* expansion: IntBits digits before the point and FracBits after it,
\* most significant first.  Every operation computes the exact result
\* and rounds it to MantissaBits significant digits, ties to even, as
\* IEEE-754 arithmetic does.
NumBits == IntBits + FracBits

NumLimbs == (NumBits + LimbBits - 1) \div LimbBits

\* the number written by the digits lo..hi of b
RECURSIVE BitsValue(_, _, _)
BitsValue(b, lo, hi) ==
    IF hi < lo THEN 0
    ELSE IF lo = hi THEN b[lo]
    ELSE LET mid == (lo + hi) \div 2
         IN  (BitsValue(b, lo, mid) * (2 ^ (hi - mid)))
                 + BitsValue(b, mid + 1, hi)

\* the digits of b taken LimbBits at a time from the least significant
\* end: limb 1 is the lowest
Limb(b, k) ==
    LET hi == NumBits - ((k - 1) * LimbBits)
        lo == IF hi - LimbBits + 1 < 1 THEN 1 ELSE hi - LimbBits + 1
    IN  BitsValue(b, lo, hi)

Limbs(b) == SubSeq([ k \in 1 .. NumLimbs |-> Limb(b, k) ], 1, NumLimbs)

\* the digit string whose limbs are v
FromLimbs(v) ==
    LET w == SubSeq(v, 1, NumLimbs)
    IN  SubSeq([ i \in 1 .. NumBits |->
                   LET k == ((NumBits - i) \div LimbBits) + 1
                       j == (NumBits - i) % LimbBits
                   IN  (w[k] \div (2 ^ j)) % 2 ], 1, NumBits)

\* float64(n) for an integer 0 <= n < 2^IntBits
F64FromInt(n) ==
    SubSeq([ i \in 1 .. NumBits |->
               IF i <= IntBits THEN (n \div (2 ^ (IntBits - i))) % 2 ELSE 0 ],
           1, NumBits)

\* round to nearest, ties to even: b holds an exact result, sticky says
\* that the exact result has nonzero digits beyond those of b
F64Round(b, sticky) ==
    IF \A i \in 1 .. NumBits : b[i] = 0 THEN b
    ELSE LET lead == CHOOSE i \in 1 .. NumBits :
                         b[i] = 1 /\ \A j \in 1 .. (i - 1) : b[j] = 0
             last == lead + MantissaBits - 1
         IN  IF last >= NumBits THEN b
             ELSE LET rest == sticky \/ \E i \in (last + 2) .. NumBits : b[i] = 1
                      up   == b[last + 1] = 1 /\ (rest \/ b[last] = 1)
                      zero == CHOOSE j \in 1 .. last :
                                  b[j] = 0 /\ \A k \in (j + 1) .. last : b[k] = 1
                  IN  SubSeq([ i \in 1 .. NumBits |->
                                 IF up
                                 THEN IF i < zero THEN b[i]
                                      ELSE IF i = zero THEN 1 ELSE 0
                                 ELSE IF i <= last THEN b[i] ELSE 0 ],
                             1, NumBits)

\* 2^n modulo d
RECURSIVE PowMod(_, _)
PowMod(n, d) ==
    IF n = 0 THEN 1 % d
    ELSE LET h == PowMod(n \div 2, d)
         IN  (h * h * (IF n % 2 = 1 THEN 2 ELSE 1)) % d

\* float64(a) / float64(d) for integers 0 <= a <= d, 0 < d
F64Div(a, d) ==
    IF a = d THEN F64FromInt(1)
    ELSE F64Round(SubSeq([ i \in 1 .. NumBits |->
                             IF i <= IntBits THEN 0
                             ELSE (2 * ((a * PowMod(i - IntBits - 1, d)) % d))
                                      \div d ], 1, NumBits),
                  (a * PowMod(FracBits, d)) % d # 0)

\* the borrow taken from limb k by the subtraction of limbs y from limbs x
RECURSIVE Borrow(_, _, _)
Borrow(x, y, k) ==
    IF k = 0 THEN 0
    ELSE IF x[k] - y[k] - Borrow(x, y, k - 1) < 0 THEN 1 ELSE 0

\* a - b for a >= b
F64Sub(a, b) ==
    LET x == Limbs(a)
        y == Limbs(b)
    IN  F64Round(FromLimbs([ k \in 1 .. NumLimbs |->
                     (x[k] - y[k] - Borrow(x, y, k - 1) + (2 ^ LimbBits))
                         % (2 ^ LimbBits) ]), FALSE)

\* the carry out of limb k of the product of the integer m and limbs x
RECURSIVE Carry(_, _, _)
Carry(m, x, k) ==
    IF k = 0 THEN 0
    ELSE ((m * x[k]) + Carry(m, x, k - 1)) \div (2 ^ LimbBits)

\* float64(m) * b for an integer 0 <= m < 2^IntBits
F64MulInt(m, b) ==
    IF m = 0 THEN F64FromInt(0)
    ELSE LET x == Limbs(b)
         IN  F64Round(FromLimbs([ k \in 1 .. NumLimbs |->
                          ((m * x[k]) + Carry(m, x, k - 1))
                              % (2 ^ LimbBits) ]), FALSE)

\* int(v): the digits after the point are dropped
F64ToInt(b) == BitsValue(b, 1, IntBits)

\* -------------------------------------------------- the weighted count
\* a weight that grows with the elapsed time
weightPrevRising(aElapsed, aWindow) == F64Div(aElapsed, aWindow)

\* weightPrev := 1.0 - (elapsed.Seconds() / sl.windowDuration.Seconds()),
\* for an elapsed time and a window of whole seconds
weightPrev(aElapsed, aWindow) ==
    F64Sub(F64FromInt(1), F64Div(aElapsed, aWindow))

\* weightedCount := int(float64(counter.prevCount)*weightPrev) + counter.currentCount
weightedCount(aPrev, aCur, aElapsed, aWindow) ==
    F64ToInt(F64MulInt(aPrev, weightPrev(aElapsed, aWindow))) + aCur

\* int(float64(prevCount)*weightPrev) in the limiter of windowDuration, worked
\* out once for the counts 0 .. MaxReq + 1 and the elapsed times
\* 0 .. windowDuration: row prevCount + 1, column elapsed + 1
WeightedPrev ==
    SubSeq([ i \in 1 .. (MaxReq + 2) |->
               SubSeq([ j \in 1 .. (windowDuration + 1) |->
                          weightedCount(i - 1, 0, j - 1, windowDuration) ],
                      1, windowDuration + 1) ], 1, MaxReq + 2)

\* the weighted count in the limiter of windowDuration
WeightedCount(aPrev, aCur, aElapsed) ==
    IF aPrev \in 0 .. (MaxReq + 1) /\ aElapsed \in 0 .. windowDuration
    THEN WeightedPrev[aPrev + 1][aElapsed + 1] + aCur
    ELSE weightedCount(aPrev, aCur, aElapsed, windowDuration)

\* a window that is taken as expired after two lengths only
WindowExpiredLate(aElapsed) == 2 * windowDuration < aElapsed

\* if sl.windowDuration < elapsed
WindowExpired(aElapsed) == windowDuration < aElapsed

\* aCounter.windowStart.Before(aThreshold)
IsStale(aCounter, aThreshold) == aCounter.windowStart < aThreshold

\* ----------------------------------------------------------------- state
VARIABLES
    clock,            \* time.Now(), in seconds since construction
    maxRequests,      \* sl.maxRequests
    shards,           \* sl.shards: index -> [mu, clients], for the shards
                      \* some key routes to (the others stay empty)
    totalRequests,    \* sl.metrics.TotalRequests
    blockedRequests,  \* sl.metrics.BlockedRequests
    pc,               \* per caller: position in isAllowed
    aIP,              \* per caller: the key of the call
    now,              \* per caller: local now
    allowed,          \* per caller: the value returned
    branch,           \* per caller: path taken ("new", "rollover", "window")
    nTrue,            \* calls that have returned true
    nFalse,           \* calls that have returned false
    nextTick,         \* time of the next tick of the cleanup ticker
    spc,              \* sweeper: position in cleanup / cleanShard
    si,               \* sweeper: index of the shard being cleaned
    threshold,        \* sweeper: local threshold of cleanup
    todo,             \* sweeper: keys the range loop has still to visit
    scur,             \* sweeper: key handed to del
    nSweeps,          \* sweeps started
    lastTouch,        \* per key: `now` of the last isAllowed call for it
    nAdmitted,        \* per key: calls that have returned true since its
                      \* counter was made, as long as prevCount = 0
    stale,            \* per key: how long it had been unused when the sweep began
    mpc,              \* reader: position in GetMetrics
    mi,               \* reader: index of the shard being counted
    mtotal,           \* reader: local total
    mTotalRequests,   \* reader: value loaded from TotalRequests
    mres,             \* reader: the TMetrics value returned last
    nSnapshots,       \* GetMetrics calls made
    nForbidden,       \* handler: requests answered 403 Forbidden
    nTooMany,         \* handler: requests answered 429 Too Many Requests
    nNext,            \* handler: calls of aNext.ServeHTTP
    aRequest,         \* handler: the request, its X-Forwarded-For values
                      \* and its RemoteAddr
    clientIP,         \* handler: the key returned by getClientIP
    err,              \* handler: the error returned by getClientIP
    hpc,              \* handler: position around the call of getClientIP
    probe,            \* in-window branch run on its own: the limiter's
                      \* parameters, the counter and elapsed
    verdict,          \* in-window branch run on its own: the value returned
                      \* and the counter left
    wpc,              \* in-window branch run on its own: position
    twin,             \* one caller: the counters of a limiter without
                      \* cleanup that is given the same calls
    calls,            \* one caller: the calls made, with the value each
                      \* limiter returned
    faulted,          \* sweeper: the key whose del has panicked
    fresh,            \* keys whose counter an isAllowed call has created or
                      \* rolled over since the sweep began
    alone,            \* no isAllowed call has been in progress since the
                      \* sweep began
    quiet             \* no isAllowed or sweep step since GetMetrics began

vars == << clock, maxRequests, shards, totalRequests, blockedRequests,
           pc, aIP, now, allowed, branch, nTrue, nFalse,
           nextTick, spc, si, threshold, todo, scur, nSweeps,
           lastTouch, nAdmitted, stale,
           mpc, mi, mtotal, mTotalRequests, mres, nSnapshots, quiet,
           nForbidden, nTooMany, nNext,
           aRequest, clientIP, err, hpc, probe, verdict, wpc,
           twin, calls, faulted, fresh, alone >>

limiterVars == << clock, maxRequests, shards, totalRequests, blockedRequests,
                  pc, aIP, now, allowed, branch, nTrue, nFalse,
                  nextTick, spc, si, threshold, todo, scur, nSweeps,
                  lastTouch, nAdmitted, stale,
                  mpc, mi, mtotal, mTotalRequests, mres, nSnapshots, quiet,
                  nForbidden, nTooMany, nNext >>

resolverVars == << aRequest, clientIP, err, hpc >>

windowVars == << probe, verdict, wpc >>

seqVars == << twin, calls >>

faultVars == << faulted >>

raceVars == << fresh, alone >>

handlerVars == << nForbidden, nTooMany, nNext >>

callerVars == << pc, aIP, now, allowed, branch, nTrue, nFalse, handlerVars >>

sweeperVars == << nextTick, spc, si, threshold, todo, scur, nSweeps >>

readerVars == << mpc, mi, mtotal, mTotalRequests, mres, nSnapshots >>

NoKey == << >>

NoMetrics ==
    [ TotalRequests |-> 0, BlockedRequests |-> 0, ActiveClients |-> 0,
      CleanupDuration |-> 0 ]

\* newShardedLimiter: empty shards, metrics zero, the ticker started
InitLimiter ==
    /\ clock = 0
    /\ maxRequests \in 0 .. MaxReq
    /\ shards = [ i \in UsedShards |->
                    [ mu |-> NoOwner, clients |-> EmptyClients ] ]
    /\ totalRequests = 0
    /\ blockedRequests = 0
    /\ pc = [ t \in Callers |-> "idle" ]
    /\ aIP = [ t \in Callers |-> NoKey ]
    /\ now = [ t \in Callers |-> 0 ]
    /\ allowed = [ t \in Callers |-> FALSE ]
    /\ branch = [ t \in Callers |-> "none" ]
    /\ nTrue = 0
    /\ nFalse = 0
    /\ nextTick = cleanupInterval
    /\ spc = "wait"
    /\ si = 0
    /\ threshold = 0
    /\ todo = {}
    /\ scur = NoKey
    /\ nSweeps = 0
    /\ lastTouch = [ k \in Keys |-> 0 ]
    /\ nAdmitted = [ k \in Keys |-> 0 ]
    /\ stale = [ k \in Keys |-> "no" ]
    /\ mpc = "idle"
    /\ mi = 0
    /\ mtotal = 0
    /\ mTotalRequests = 0
    /\ mres = NoMetrics
    /\ nSnapshots = 0
    /\ quiet = FALSE
    /\ nForbidden = 0
    /\ nTooMany = 0
    /\ nNext = 0

\* a request without header and address
NoRequest == [ xff |-> << >>, remoteAddr |-> << >> ]

\* a probe of nothing
NoProbe ==
    [ windowDuration |-> 1, maxRequests |-> 0, elapsed |-> 0,
      counter |-> NewCounter(0) ]

NoVerdict == [ allowed |-> FALSE, counter |-> NewCounter(0), blocked |-> 0 ]

\* no in-window branch is run on its own
InitNoProbe ==
    /\ probe = NoProbe
    /\ verdict = NoVerdict
    /\ wpc = "none"

\* no call has been made by the one caller
InitNoCalls ==
    /\ twin = EmptyClients
    /\ calls = << >>
    /\ faulted = NoKey
    /\ fresh = {}
    /\ alone = TRUE

\* Wrap has made the limiter; no request is being resolved
Init ==
    /\ InitLimiter
    /\ InitNoProbe
    /\ InitNoCalls
    /\ aRequest = NoRequest
    /\ clientIP = << >>
    /\ err = "nil"
    /\ hpc = "none"

\* the clock advances
Tick ==
    /\ clock < MaxTime
    /\ clock' = clock + 1
    /\ UNCHANGED << resolverVars, windowVars, seqVars, faultVars, raceVars, maxRequests, shards, totalRequests, blockedRequests,
                    callerVars, sweeperVars, lastTouch, nAdmitted, stale,
                    readerVars, quiet >>

\* ------------------------------------------------------------- isAllowed
\* the shard and the counter a call works on
ShardOf(t) == getShard(aIP[t])

ClientsOf(t) == shards[ShardOf(t)].clients

CounterOf(t) == ClientsOf(t)[aIP[t]]

\* a mutex that lets everybody in
CanLockAlways(aMutex) == TRUE

\* Lock() of a sync.Mutex returns once nobody holds the mutex
CanLock(aMutex) == aMutex = NoOwner

\* an Unlock that is left out
ShardStillLocked(s) == shards

\* sws.Unlock() / shard.Unlock() of shard s
ShardUnlocked(s) == [ shards EXCEPT ![s].mu = NoOwner ]

\* shards with the map of shard s replaced
WithClients(s, m) == [ shards EXCEPT ![s].clients = m ]

\* an increment that is lost when another call is in flight
RacyAddTotal == IF \E u \in Callers : pc[u] # "idle"
                THEN totalRequests
                ELSE totalRequests + 1

\* atomic.AddUint64(&sl.metrics.TotalRequests, 1)
AddTotal == totalRequests + 1

\* a denial that is not counted
AddBlockedNever == blockedRequests

\* a denial counted twice
AddBlockedTwice == blockedRequests + 2

\* atomic.AddUint64(&sl.metrics.BlockedRequests, 1)
AddBlocked == blockedRequests + 1

\* operations started so far
OpsStarted ==
    nTrue + nFalse + Cardinality({ u \in Callers : pc[u] # "idle" })
    + nSweeps + nSnapshots + nForbidden

\* goroutines are interchangeable: of the idle ones the first makes the call
LowerCaller(u, t) == u = "t1" /\ t = "t2"

\* the handler of Wrap, getClientIP has failed:
\* http.Error(aWriter, "Forbidden - Invalid IP", http.StatusForbidden); return
Forbidden(t) ==
    /\ pc[t] = "idle"
    /\ \A u \in Callers : LowerCaller(u, t) => pc[u] # "idle"
    /\ OpsStarted < MaxOps
    /\ nForbidden' = nForbidden + 1
    /\ UNCHANGED << resolverVars, windowVars, seqVars, faultVars, raceVars, clock, maxRequests, shards, totalRequests, blockedRequests,
                    pc, aIP, now, allowed, branch, nTrue, nFalse,
                    nTooMany, nNext,
                    sweeperVars, lastTouch, nAdmitted, stale, readerVars, quiet >>

\* the handler of Wrap, getClientIP has returned the key k: isAllowed is
\* entered, the total is counted, the shard chosen
Call(t, k) ==
    /\ pc[t] = "idle"
    /\ \A u \in Callers : LowerCaller(u, t) => pc[u] # "idle"
    /\ OpsStarted < MaxOps
    /\ totalRequests' = AddTotal
    /\ aIP' = [ aIP EXCEPT ![t] = k ]
    /\ pc' = [ pc EXCEPT ![t] = "lockShard" ]
    /\ stale' = [ stale EXCEPT ![k] = "no" ]
    /\ quiet' = FALSE
    /\ alone' = (alone /\ spc = "wait")
    /\ UNCHANGED << resolverVars, windowVars, seqVars, faultVars, fresh, clock, maxRequests, shards, blockedRequests,
                    now, allowed, branch, nTrue, nFalse, handlerVars,
                    sweeperVars, lastTouch, nAdmitted, readerVars >>

\* shard.Lock()
LockShard(t) ==
    /\ pc[t] = "lockShard"
    /\ CanLock(shards[ShardOf(t)].mu)
    /\ shards' = [ shards EXCEPT ![ShardOf(t)].mu = t ]
    /\ pc' = [ pc EXCEPT ![t] = "lookup" ]
    /\ quiet' = FALSE
    /\ UNCHANGED << resolverVars, windowVars, seqVars, faultVars, raceVars, clock, maxRequests, totalRequests, blockedRequests,
                    aIP, now, allowed, branch, nTrue, nFalse, handlerVars,
                    sweeperVars, lastTouch, nAdmitted, stale, readerVars >>

\* now := time.Now().UTC(); counter, exists := shard.clients[aIP];
\* if !exists { create the counter; return true }
Lookup(t) ==
    /\ pc[t] = "lookup"
    /\ now' = [ now EXCEPT ![t] = clock ]
    /\ lastTouch' = [ lastTouch EXCEPT ![aIP[t]] = clock ]
    /\ IF aIP[t] \notin DOMAIN ClientsOf(t)
       THEN /\ shards' = WithClients(ShardOf(t),
                            MapPut(ClientsOf(t), aIP[t], NewCounter(clock)))
            /\ allowed' = [ allowed EXCEPT ![t] = TRUE ]
            /\ branch' = [ branch EXCEPT ![t] = "new" ]
            /\ pc' = [ pc EXCEPT ![t] = "return" ]
       ELSE /\ pc' = [ pc EXCEPT ![t] = "lockCounter" ]
            /\ UNCHANGED << shards, allowed, branch >>
    /\ fresh' = IF aIP[t] \notin DOMAIN ClientsOf(t) /\ spc # "wait"
                THEN fresh \cup { aIP[t] }
                ELSE fresh
    /\ quiet' = FALSE
    /\ UNCHANGED << resolverVars, windowVars, seqVars, faultVars, alone, clock, maxRequests, totalRequests, blockedRequests,
                    aIP, nTrue, nFalse, handlerVars,
                    sweeperVars, stale, nAdmitted, readerVars >>

\* counter.Lock()
LockCounter(t) ==
    /\ pc[t] = "lockCounter"
    /\ CanLock(CounterOf(t).mu)
    /\ shards' = WithClients(ShardOf(t),
                    [ ClientsOf(t) EXCEPT ![aIP[t]].mu = t ])
    /\ pc' = [ pc EXCEPT ![t] = "decide" ]
    /\ quiet' = FALSE
    /\ UNCHANGED << resolverVars, windowVars, seqVars, faultVars, raceVars, clock, maxRequests, totalRequests, blockedRequests,
                    aIP, now, allowed, branch, nTrue, nFalse, handlerVars,
                    sweeperVars, lastTouch, nAdmitted, stale, readerVars >>

\* elapsed := time.Since(counter.windowStart), read when the call decides
ElapsedOf(t) == clock - CounterOf(t).windowStart

\* a rollover that forgets the current count
RolloverReset(c, aNow) ==
    [ c EXCEPT !.prevCount = 0, !.currentCount = 1, !.windowStart = aNow ]

\* counter.prevCount = counter.currentCount; counter.currentCount = 1;
\* counter.windowStart = now
Rollover(c, aNow) ==
    [ c EXCEPT !.prevCount = c.currentCount, !.currentCount = 1,
               !.windowStart = aNow ]

\* a limit test that stops one request early
WithinLimitTooStrict(c, e) ==
    WeightedCount(c.prevCount, c.currentCount, e) + 1 < maxRequests

\* a limit test that lets one request more pass
WithinLimitOneMore(c, e) ==
    WeightedCount(c.prevCount, c.currentCount, e) <= maxRequests + 1

\* allowed := weightedCount <= sl.maxRequests
WithinLimit(c, e) ==
    WeightedCount(c.prevCount, c.currentCount, e) <= maxRequests

\* counter.currentCount++
Admit(c) == [ c EXCEPT !.currentCount = c.currentCount + 1 ]

\* a denial that is counted like an admission
DenyCounted(c) == [ c EXCEPT !.currentCount = c.currentCount + 1 ]

\* the else branch of `if allowed`: the counter is not written
Deny(c) == c

\* a shard that keeps one counter for all its clients
WithCounterShared(t, c) ==
    WithClients(ShardOf(t), [ k \in DOMAIN ClientsOf(t) |-> c ])

\* shards with the counter of caller t replaced by c
WithCounter(t, c) ==
    WithClients(ShardOf(t), [ ClientsOf(t) EXCEPT ![aIP[t]] = c ])

\* the rest of isAllowed under the counter's lock: the rollover, or the
\* weighted sliding window test
Decide(t) ==
    /\ pc[t] = "decide"
    /\ LET c == CounterOf(t)
           e == ElapsedOf(t)
       IN  IF WindowExpired(e)
           THEN /\ shards' = WithCounter(t, Rollover(c, now[t]))
                /\ allowed' = [ allowed EXCEPT ![t] = TRUE ]
                /\ branch' = [ branch EXCEPT ![t] = "rollover" ]
                /\ UNCHANGED blockedRequests
           ELSE /\ allowed' = [ allowed EXCEPT ![t] = WithinLimit(c, e) ]
                /\ branch' = [ branch EXCEPT ![t] = "window" ]
                /\ IF WithinLimit(c, e)
                   THEN /\ shards' = WithCounter(t, Admit(c))
                        /\ UNCHANGED blockedRequests
                   ELSE /\ shards' = WithCounter(t, Deny(c))
                        /\ blockedRequests' = AddBlocked
    /\ pc' = [ pc EXCEPT ![t] = "return" ]
    /\ fresh' = IF WindowExpired(ElapsedOf(t)) /\ spc # "wait"
                THEN fresh \cup { aIP[t] }
                ELSE fresh
    /\ quiet' = FALSE
    /\ UNCHANGED << resolverVars, windowVars, seqVars, faultVars, alone, clock, maxRequests, totalRequests,
                    aIP, now, nTrue, nFalse, handlerVars,
                    sweeperVars, lastTouch, nAdmitted, stale, readerVars >>

\* a handler that passes every request on
ServeNextAlways(aAllowed) == nNext + 1

\* aNext.ServeHTTP(aWriter, aRequest), reached if isAllowed returned true
ServeNext(aAllowed) == IF aAllowed THEN nNext + 1 ELSE nNext

\* if !sl.isAllowed(clientIP) {
\*     http.Error(aWriter, "Rate limit exceeded", http.StatusTooManyRequests);
\*     return }
TooManyRequests(aAllowed) == IF aAllowed THEN nTooMany ELSE nTooMany + 1

\* return: the deferred counter.Unlock() and shard.Unlock() run, in that
\* order, and the handler of Wrap acts on the result
Return(t) ==
    /\ pc[t] = "return"
    /\ LET m == ClientsOf(t)
           unlocked == IF aIP[t] \in DOMAIN m /\ m[aIP[t]].mu = t
                       THEN [ m EXCEPT ![aIP[t]].mu = NoOwner ]
                       ELSE m
       IN  shards' = [ shards EXCEPT ![ShardOf(t)] =
                        [ mu |-> NoOwner, clients |-> unlocked ] ]
    /\ nTrue' = IF allowed[t] THEN nTrue + 1 ELSE nTrue
    /\ nFalse' = IF allowed[t] THEN nFalse ELSE nFalse + 1
    /\ nNext' = ServeNext(allowed[t])
    /\ nTooMany' = TooManyRequests(allowed[t])
    /\ nAdmitted' = [ nAdmitted EXCEPT ![aIP[t]] =
                        IF CounterOf(t).prevCount # 0 THEN 0
                        ELSE IF allowed[t] THEN @ + 1
                        ELSE @ ]
    /\ pc' = [ pc EXCEPT ![t] = "idle" ]
    /\ aIP' = [ aIP EXCEPT ![t] = NoKey ]
    /\ now' = [ now EXCEPT ![t] = 0 ]
    /\ allowed' = [ allowed EXCEPT ![t] = FALSE ]
    /\ branch' = [ branch EXCEPT ![t] = "none" ]
    /\ quiet' = FALSE
    /\ UNCHANGED << resolverVars, windowVars, seqVars, faultVars, raceVars, clock, maxRequests, totalRequests, blockedRequests,
                    nForbidden, sweeperVars, lastTouch, stale, readerVars >>

\* ---------------------------------------------------- cleanup / cleanShard
\* the tick after the one received at time c: a ticker drops the ticks its
\* receiver is too slow for
TickAfter(c) == ((c \div cleanupInterval) + 1) * cleanupInterval

\* a threshold one window back
ThresholdOneWindow(aNow) == aNow - windowDuration

\* a threshold three windows back
ThresholdThreeWindows(aNow) == aNow - (windowDuration * 3)

\* threshold := time.Now().UTC().Add(-sl.windowDuration * 2)
Threshold(aNow) == aNow - (windowDuration * 2)

\* keys with a counter in some shard
LiveKeys == { k \in Keys : k \in DOMAIN shards[getShard(k)].clients }

\* how long key k has been without an isAllowed call at time aNow: more
\* than two windows ("gt"), exactly two ("eq"), or less, or a call for it
\* is in progress, or it has no counter ("no")
Age(k, aNow) ==
    IF k \notin LiveKeys \/ \E t \in Callers : aIP[t] = k THEN "no"
    ELSE IF aNow - lastTouch[k] > 2 * windowDuration THEN "gt"
    ELSE IF aNow - lastTouch[k] = 2 * windowDuration THEN "eq"
    ELSE "no"

\* `for range ticker.C { sl.cleanup() }`: a tick is received and cleanup
\* computes its threshold
SweepStart ==
    /\ spc = "wait"
    /\ clock >= nextTick
    /\ OpsStarted < MaxOps
    /\ nSweeps' = nSweeps + 1
    /\ nextTick' = TickAfter(clock)
    /\ threshold' = Threshold(clock)
    /\ si' = NextShard(0)
    /\ spc' = "lockShard"
    /\ stale' = [ k \in Keys |-> Age(k, clock) ]
    /\ fresh' = {}
    /\ alone' = (\A t \in Callers : pc[t] = "idle")
    /\ quiet' = FALSE
    /\ UNCHANGED << resolverVars, windowVars, seqVars, faultVars, clock, maxRequests, shards, totalRequests, blockedRequests,
                    callerVars, todo, scur, lastTouch, nAdmitted, readerVars >>

\* cleanShard: sws.Lock(), and the range loop over sws.clients begins
SweepLockShard ==
    /\ spc = "lockShard"
    /\ CanLock(shards[si].mu)
    /\ shards' = [ shards EXCEPT ![si].mu = "sweeper" ]
    /\ todo' = DOMAIN shards[si].clients
    /\ spc' = "range"
    /\ quiet' = FALSE
    /\ UNCHANGED << resolverVars, windowVars, seqVars, faultVars, raceVars, clock, maxRequests, totalRequests, blockedRequests,
                    callerVars, nextTick, si, threshold, scur, nSweeps,
                    lastTouch, nAdmitted, stale, readerVars >>

\* the range loop hands the next entry (in any order) to del
SweepNext(k) ==
    /\ spc = "range"
    /\ k \in todo
    /\ todo' = todo \ {k}
    /\ scur' = k
    /\ spc' = "delLock"
    /\ quiet' = FALSE
    /\ UNCHANGED << resolverVars, windowVars, seqVars, faultVars, raceVars, clock, maxRequests, shards, totalRequests, blockedRequests,
                    callerVars, nextTick, si, threshold, nSweeps,
                    lastTouch, nAdmitted, stale, readerVars >>

\* del: aCounter.Lock()
SweepDelLock ==
    /\ spc = "delLock"
    /\ CanLock(shards[si].clients[scur].mu)
    /\ shards' = WithClients(si, [ shards[si].clients EXCEPT ![scur].mu = "sweeper" ])
    /\ spc' = "delBody"
    /\ quiet' = FALSE
    /\ UNCHANGED << resolverVars, windowVars, seqVars, faultVars, raceVars, clock, maxRequests, totalRequests, blockedRequests,
                    callerVars, nextTick, si, threshold, todo, scur, nSweeps,
                    lastTouch, nAdmitted, stale, readerVars >>

\* del: the staleness test, delete(sws.clients, aIP), and the deferred
\* aCounter.Unlock()
SweepDelBody ==
    /\ spc = "delBody"
    /\ LET m == shards[si].clients
       IN  IF IsStale(m[scur], threshold)
           THEN shards' = WithClients(si, MapDelete(m, scur))
           ELSE shards' = WithClients(si, [ m EXCEPT ![scur].mu = NoOwner ])
    /\ lastTouch' = IF IsStale(shards[si].clients[scur], threshold)
                    THEN [ lastTouch EXCEPT ![scur] = 0 ]
                    ELSE lastTouch
    /\ nAdmitted' = IF IsStale(shards[si].clients[scur], threshold)
                    THEN [ nAdmitted EXCEPT ![scur] = 0 ]
                    ELSE nAdmitted
    /\ scur' = NoKey
    /\ spc' = "range"
    /\ quiet' = FALSE
    /\ UNCHANGED << resolverVars, windowVars, seqVars, faultVars, raceVars, clock, maxRequests, totalRequests, blockedRequests,
                    callerVars, nextTick, si, threshold, todo, nSweeps,
                    stale, readerVars >>

\* the range loop is over: the deferred sws.Unlock(), and cleanup goes on
\* with the next shard or returns
SweepUnlockShard ==
    /\ spc = "range"
    /\ todo = {}
    /\ shards' = ShardUnlocked(si)
    /\ si' = NextShard(si + 1)
    /\ spc' = IF NextShard(si + 1) = NumShards THEN "done" ELSE "lockShard"
    /\ quiet' = FALSE
    /\ UNCHANGED << resolverVars, windowVars, seqVars, faultVars, raceVars, clock, maxRequests, totalRequests, blockedRequests,
                    callerVars, nextTick, threshold, todo, scur, nSweeps,
                    lastTouch, nAdmitted, stale, readerVars >>

\* cleanup returns, and the goroutine waits for the next tick
SweepDone ==
    /\ spc = "done"
    /\ spc' = "wait"
    /\ si' = 0
    /\ threshold' = 0
    /\ stale' = [ k \in Keys |-> "no" ]
    /\ fresh' = {}
    /\ alone' = TRUE
    /\ quiet' = FALSE
    /\ UNCHANGED << resolverVars, windowVars, seqVars, faultVars, clock, maxRequests, shards, totalRequests, blockedRequests,
                    callerVars, nextTick, todo, scur, nSweeps, lastTouch, nAdmitted, readerVars >>

\* ------------------------------------------------------------- GetMetrics
\* a size that counts the shard instead of its entries
ShardLenOne(s) == 1

\* len(shard.clients)
ShardLen(s) == Cardinality(DOMAIN shards[s].clients)

\* GetMetrics is entered: var total uint64
MetricsStart ==
    /\ mpc = "idle"
    /\ OpsStarted < MaxOps
    /\ nSnapshots' = nSnapshots + 1
    /\ mtotal' = 0
    /\ mi' = NextShard(0)
    /\ mpc' = "lockShard"
    /\ quiet' = ((\A t \in Callers : pc[t] = "idle") /\ spc = "wait")
    /\ UNCHANGED << resolverVars, windowVars, seqVars, faultVars, raceVars, clock, maxRequests, shards, totalRequests, blockedRequests,
                    callerVars, sweeperVars, lastTouch, nAdmitted, stale,
                    mTotalRequests, mres >>

\* shard.Lock()
MetricsLockShard ==
    /\ mpc = "lockShard"
    /\ CanLock(shards[mi].mu)
    /\ shards' = [ shards EXCEPT ![mi].mu = "reader" ]
    /\ mpc' = "len"
    /\ UNCHANGED << resolverVars, windowVars, seqVars, faultVars, raceVars, clock, maxRequests, totalRequests, blockedRequests,
                    callerVars, sweeperVars, lastTouch, nAdmitted, stale,
                    mi, mtotal, mTotalRequests, mres, nSnapshots, quiet >>

\* total += uint64(len(shard.clients)); shard.Unlock()
MetricsLen ==
    /\ mpc = "len"
    /\ mtotal' = mtotal + ShardLen(mi)
    /\ shards' = ShardUnlocked(mi)
    /\ mi' = NextShard(mi + 1)
    /\ mpc' = IF NextShard(mi + 1) = NumShards THEN "loadTotal" ELSE "lockShard"
    /\ UNCHANGED << resolverVars, windowVars, seqVars, faultVars, raceVars, clock, maxRequests, totalRequests, blockedRequests,
                    callerVars, sweeperVars, lastTouch, nAdmitted, stale,
                    mTotalRequests, mres, nSnapshots, quiet >>

\* TotalRequests: atomic.LoadUint64(&sl.metrics.TotalRequests)
MetricsLoadTotal ==
    /\ mpc = "loadTotal"
    /\ mTotalRequests' = totalRequests
    /\ mpc' = "loadBlocked"
    /\ UNCHANGED << resolverVars, windowVars, seqVars, faultVars, raceVars, clock, maxRequests, shards, totalRequests, blockedRequests,
                    callerVars, sweeperVars, lastTouch, nAdmitted, stale,
                    mi, mtotal, mres, nSnapshots, quiet >>

\* BlockedRequests: atomic.LoadUint64(&sl.metrics.BlockedRequests), and the
\* TMetrics value is returned
MetricsReturn ==
    /\ mpc = "loadBlocked"
    /\ mres' = [ TotalRequests |-> mTotalRequests,
                 BlockedRequests |-> blockedRequests,
                 ActiveClients |-> mtotal,
                 CleanupDuration |-> cleanupInterval ]
    /\ mpc' = "done"
    /\ UNCHANGED << resolverVars, windowVars, seqVars, faultVars, raceVars, clock, maxRequests, shards, totalRequests, blockedRequests,
                    callerVars, sweeperVars, lastTouch, nAdmitted, stale,
                    mi, mtotal, mTotalRequests, nSnapshots, quiet >>

\* the caller of GetMetrics has used the value
MetricsDone ==
    /\ mpc = "done"
    /\ mpc' = "idle"
    /\ mi' = 0
    /\ mtotal' = 0
    /\ mTotalRequests' = 0
    /\ mres' = NoMetrics
    /\ quiet' = FALSE
    /\ UNCHANGED << resolverVars, windowVars, seqVars, faultVars, raceVars, clock, maxRequests, shards, totalRequests, blockedRequests,
                    callerVars, sweeperVars, lastTouch, nAdmitted, stale, nSnapshots >>

\* ---------------------------------------------------------- specification
Next ==
    \/ Tick
    \/ \E t \in Callers : Forbidden(t)
    \/ \E t \in Callers, k \in Keys : Call(t, k)
    \/ \E t \in Callers : LockShard(t)
    \/ \E t \in Callers : Lookup(t)
    \/ \E t \in Callers : LockCounter(t)
    \/ \E t \in Callers : Decide(t)
    \/ \E t \in Callers : Return(t)
    \/ SweepStart
    \/ SweepLockShard
    \/ \E k \in Keys : SweepNext(k)
    \/ SweepDelLock
    \/ SweepDelBody
    \/ SweepUnlockShard
    \/ SweepDone
    \/ MetricsStart
    \/ MetricsLockShard
    \/ MetricsLen
    \/ MetricsLoadTotal
    \/ MetricsReturn
    \/ MetricsDone

Spec == Init /\ [][Next]_vars

\* ------------------------------------------------------ a panic in del
\* where the sweeper is after a panic that nothing recovers: the program
\* has ended
AfterPanicUnrecovered == "crashed"

\* where the sweeper is after a panic in del: the deferred function has
\* called recover(), del returns to the range loop of cleanShard
AfterPanic == "range"

\* del panics, in aCounter.Lock() or after it (once in a behaviour): the
\* deferred aCounter.Unlock() runs if the lock was taken, then the deferred
\* function recovers and logs
SweepDelPanic ==
    /\ spc \in { "delLock", "delBody" }
    /\ faulted = NoKey
    /\ faulted' = scur
    /\ shards' = IF spc = "delBody"
                 THEN WithClients(si, [ shards[si].clients EXCEPT
                                          ![scur].mu = NoOwner ])
                 ELSE shards
    /\ scur' = NoKey
    /\ spc' = AfterPanic
    /\ quiet' = FALSE
    /\ UNCHANGED << resolverVars, windowVars, seqVars, raceVars, clock, maxRequests,
                    totalRequests, blockedRequests, callerVars,
                    nextTick, si, threshold, todo, nSweeps,
                    lastTouch, nAdmitted, stale, readerVars >>

NextFault == Next \/ SweepDelPanic

SpecFault == Init /\ [][NextFault]_vars

\* ------------------------------------------------------------- scheduling
\* the steps of one isAllowed call, of a sweep and of a GetMetrics call
CallerStep(t) ==
    LockShard(t) \/ Lookup(t) \/ LockCounter(t) \/ Decide(t) \/ Return(t)

SweeperStep ==
    \/ SweepLockShard
    \/ \E k \in Keys : SweepNext(k)
    \/ SweepDelLock
    \/ SweepDelBody
    \/ SweepUnlockShard
    \/ SweepDone

ReaderStep ==
    \/ MetricsLockShard
    \/ MetricsLen
    \/ MetricsLoadTotal
    \/ MetricsReturn
    \/ MetricsDone

\* The Go scheduler runs every goroutine that can run: a goroutine whose
\* next step stays possible takes it.
Fairness ==
    /\ \A t \in Callers : WF_vars(CallerStep(t))
    /\ WF_vars(SweeperStep)
    /\ WF_vars(ReaderStep)

\* newShardedLimiter(1, aDuration)
InitFair == Init /\ maxRequests = 1

FairSpec == InitFair /\ [][Next]_vars /\ Fairness

\* ------------------------------------------------------------ getClientIP
\* A string is a sequence of atoms.  An atom is a separator byte or a piece
\* of text that the functions below never cut:
\*   ","  " "  "["  "]"   the bytes themselves
\*   "a4"  "b4"           the IPv4 addresses 203.0.113.195 and 70.41.3.18
\*   "a6"                 the IPv6 address 2001:db8::1
\*   "m4"                 ::ffff:203.0.113.195, the IPv4-mapped form of "a4"
\*   ":p"                 a colon and a port, :8080
\*   "x"                  text that is no address: invalid-ip
\*   "a6p"                2001:db8::1:8080, the address that "a6" followed
\*                        by ":p" spells (found in results only)
\* No string holds more than one ":p".

\* the atoms that contain a colon
ColonAtoms == { ":p", "a6", "m4" }

\* net.ParseIP returned nil
NilIP == "nil"

\* net.ParseIP(s): the address s spells, or nil
ParseIP(s) ==
    IF Len(s) = 1 /\ s[1] \in { "a4", "b4", "a6" } THEN s[1]
    ELSE IF s = << "m4" >> THEN "a4"
    ELSE IF s = << "a6", ":p" >> THEN "a6p"
    ELSE NilIP

\* netIP.To4(): the 4-byte form of an IPv4 address, or nil
To4(ip) == IF ip \in { "a4", "b4" } THEN ip ELSE NilIP

\* ip.String()
IPString(ip) == << ip >>

\* strings.TrimLeft(s, cutset)
RECURSIVE TrimLeft(_, _)
TrimLeft(s, cutset) ==
    IF s # << >> /\ Head(s) \in cutset THEN TrimLeft(Tail(s), cutset) ELSE s

\* strings.TrimRight(s, cutset)
RECURSIVE TrimRight(_, _)
TrimRight(s, cutset) ==
    IF s # << >> /\ s[Len(s)] \in cutset
    THEN TrimRight(SubSeq(s, 1, Len(s) - 1), cutset)
    ELSE s

\* strings.Trim(s, cutset)
Trim(s, cutset) == TrimRight(TrimLeft(s, cutset), cutset)

\* strings.TrimSpace(s)
TrimSpace(s) == Trim(s, { " " })

\* strings.Split(s, ",")
RECURSIVE Split(_)
Split(s) ==
    LET commas == { i \in 1 .. Len(s) : s[i] = "," }
    IN  IF commas = {} THEN << s >>
        ELSE LET i == CHOOSE c \in commas : \A d \in commas : c <= d
             IN  << SubSeq(s, 1, i - 1) >> \o Split(SubSeq(s, i + 1, Len(s)))

\* cleanIP: aIP = strings.Trim(aIP, "[]"); netIP := net.ParseIP(aIP);
\* "" if nil, else the IPv4 or the IPv6 text
cleanIP(s) ==
    LET netIP == ParseIP(Trim(s, { "[", "]" }))
    IN  IF netIP = NilIP THEN << >>
        ELSE IF To4(netIP) # NilIP THEN IPString(To4(netIP))
        ELSE IPString(netIP)

\* a loop that keeps the last valid entry
RECURSIVE LastValid(_, _)
LastValid(ips, i) ==
    IF i > Len(ips) THEN << >>
    ELSE LET validIP == cleanIP(TrimSpace(ips[i]))
             later == LastValid(ips, i + 1)
         IN  IF later # << >> THEN later ELSE validIP

\* for _, ip := range ips { ip = strings.TrimSpace(ip);
\*     if validIP := cleanIP(ip); "" != validIP { return validIP, nil } }
\* continued at entry i; "" if the loop ends without a return
RECURSIVE FirstValid(_, _)
FirstValid(ips, i) ==
    IF i > Len(ips) THEN << >>
    ELSE LET validIP == cleanIP(TrimSpace(ips[i]))
         IN  IF validIP # << >> THEN validIP ELSE FirstValid(ips, i + 1)

\* aRequest.Header.Get("X-Forwarded-For"): the first value of the header,
\* "" if there is none
HeaderGet(h) == IF h = << >> THEN << >> ELSE h[1]

\* net.SplitHostPort(hostport): the host and whether an error is returned
SplitHostPort(hostport) ==
    LET n == Len(hostport)
        colons == { k \in 1 .. n : hostport[k] \in ColonAtoms }
        closes == { k \in 1 .. n : hostport[k] = "]" }
        fail == [ host |-> << >>, failed |-> TRUE ]
    IN  IF colons = {} THEN fail
        ELSE LET i == CHOOSE c \in colons : \A d \in colons : d <= c
             IN  IF hostport[1] = "["
                 THEN IF closes = {} THEN fail
                      ELSE LET end == CHOOSE c \in closes :
                                          \A d \in closes : c <= d
                           IN  IF end + 1 # i \/ hostport[i] # ":p" THEN fail
                               ELSE IF \E k \in 2 .. n : hostport[k] = "["
                               THEN fail
                               ELSE IF \E k \in (end + 1) .. n : hostport[k] = "]"
                               THEN fail
                               ELSE [ host |-> SubSeq(hostport, 2, end - 1),
                                      failed |-> FALSE ]
                 ELSE IF hostport[i] # ":p" \/ Cardinality(colons) > 1 THEN fail
                      ELSE IF \E k \in 1 .. n : hostport[k] \in { "[", "]" }
                      THEN fail
                      ELSE [ host |-> SubSeq(hostport, 1, i - 1),
                             failed |-> FALSE ]

\* getClientIP(aRequest): the key and the error
getClientIP(r) ==
    LET xff == HeaderGet(r.xff)
        forwarded == IF xff # << >> THEN FirstValid(Split(xff), 1) ELSE << >>
        split == SplitHostPort(r.remoteAddr)
    IN  IF forwarded # << >> THEN [ ip |-> forwarded, err |-> "nil" ]
        ELSE IF split.failed
        THEN IF cleanIP(r.remoteAddr) # << >>
             THEN [ ip |-> cleanIP(r.remoteAddr), err |-> "nil" ]
             ELSE [ ip |-> << >>, err |-> "invalid RemoteAddr" ]
        ELSE IF cleanIP(split.host) # << >>
        THEN [ ip |-> cleanIP(split.host), err |-> "nil" ]
        ELSE [ ip |-> << >>, err |-> "no valid IP address found" ]

\* the entries a header value is made of
Entries ==
    { << >>, << "x" >>, << "a4" >>, << " ", "b4" >>, << "a6", " " >>,
      << "[", "a6", "]" >>, << "m4" >>, << "a4", ":p" >>,
      << "[", " ", "b4", "]" >> }

\* header values of up to n entries
RECURSIVE HeaderValues(_)
HeaderValues(n) ==
    IF n = 1 THEN Entries
    ELSE HeaderValues(n - 1)
         \cup { e \o << "," >> \o v : e \in Entries, v \in HeaderValues(n - 1) }

\* the X-Forwarded-For header of a request: no value, one, or two
Headers ==
    { << >> } \cup { << v >> : v \in HeaderValues(MaxEntries) }
    \cup { << v, << "b4" >> >> : v \in { << >>, << "x" >>, << "a4" >> } }

\* the RemoteAddr of a request
RemoteAddrs ==
    { << >>, << "x" >>, << ":p" >>, << "x", ":p" >>,
      << "a4" >>, << "a4", ":p" >>, << "b4", ":p", "x" >>,
      << "[", "a4", "]", ":p" >>, << "m4" >>,
      << "a6" >>, << "a6", ":p" >>, << "[", "a6", "]" >>,
      << "[", "a6", "]", ":p" >>, << "[", "a6", ":p" >>,
      << "[", "a6", "]", "x" >> }

Requests == [ xff : Headers, remoteAddr : RemoteAddrs ]

\* a request arrives at the handler of Wrap
InitResolver ==
    /\ InitLimiter
    /\ InitNoProbe
    /\ InitNoCalls
    /\ aRequest \in Requests
    /\ clientIP = << >>
    /\ err = "nil"
    /\ hpc = "getClientIP"

\* clientIP, err := getClientIP(aRequest)
Resolve ==
    /\ hpc = "getClientIP"
    /\ clientIP' = getClientIP(aRequest).ip
    /\ err' = getClientIP(aRequest).err
    /\ hpc' = "resolved"
    /\ UNCHANGED << limiterVars, windowVars, seqVars, faultVars, raceVars, aRequest >>

NextResolver == Resolve

SpecResolver == InitResolver /\ [][NextResolver]_vars

\* ------------------------------------------- the in-window branch alone
\* isAllowed from `weightPrev := ...` to `return allowed`, as a function of
\* the limiter's parameters, the counter and elapsed
InWindow(aWindow, aMax, aCounter, aElapsed) ==
    LET ok == weightedCount(aCounter.prevCount, aCounter.currentCount,
                            aElapsed, aWindow) <= aMax
    IN  [ allowed |-> ok,
          counter |-> IF ok THEN Admit(aCounter) ELSE Deny(aCounter),
          blocked |-> IF ok THEN 0 ELSE 1 ]

\* a counter with the given counts
CounterWith(aPrev, aCur) ==
    [ NewCounter(0) EXCEPT !.prevCount = aPrev, !.currentCount = aCur ]

\* a limiter of the given parameters can hold counter k when a call reaches
\* the in-window branch at elapsed: a counter is made with currentCount 1,
\* and currentCount grows by one when a call is admitted, which the calls
\* made no later than elapsed were if one made at elapsed is
CanHold(aWindow, aMax, aElapsed, k) ==
    /\ k.prevCount <= aMax + 1
    /\ k.currentCount <= aMax + 1
    /\ \/ k.currentCount = 1
       \/ weightedCount(k.prevCount, k.currentCount - 1, aElapsed, aWindow)
              <= aMax

\* the example of README.md, "How it Works": a 60-second window limit
\* of 100 requests, 45 seconds elapsed, counts 80 and 30
ReadmeProbe ==
    [ windowDuration |-> 60, maxRequests |-> 100, elapsed |-> 45,
      counter |-> CounterWith(80, 30) ]

Probes ==
    { [ windowDuration |-> w, maxRequests |-> m, elapsed |-> e, counter |-> k ] :
        w \in 1 .. MaxWindow, m \in 0 .. MaxLimit, e \in 0 .. MaxWindow,
        k \in { CounterWith(p, c) : p \in 0 .. (MaxLimit + 1),
                                    c \in 1 .. (MaxLimit + 1) } }

ReachableProbes ==
    { x \in Probes :
        /\ x.elapsed <= x.windowDuration
        /\ CanHold(x.windowDuration, x.maxRequests, x.elapsed, x.counter) }
        \cup { ReadmeProbe }

\* a call has found its counter, locked it and seen that
\* sl.windowDuration < elapsed is false
InitWindow ==
    /\ InitLimiter
    /\ InitNoCalls
    /\ aRequest = NoRequest
    /\ clientIP = << >>
    /\ err = "nil"
    /\ hpc = "none"
    /\ probe \in ReachableProbes
    /\ verdict = NoVerdict
    /\ wpc = "inWindow"

\* the in-window branch runs
RunInWindow ==
    /\ wpc = "inWindow"
    /\ verdict' = InWindow(probe.windowDuration, probe.maxRequests,
                           probe.counter, probe.elapsed)
    /\ wpc' = "returned"
    /\ UNCHANGED << limiterVars, resolverVars, seqVars, faultVars, raceVars, probe >>

NextWindow == RunInWindow

SpecWindow == InitWindow /\ [][NextWindow]_vars

\* ------------------------------------------------- one caller and cleanup
\* One goroutine calls isAllowed, one call after the other, and cleanup
\* runs between the calls: a call and a run of cleanup are one step each.
\* Beside the limiter a second one, without cleanup, is given the same
\* calls at the same times.

\* isAllowed from the lookup to the return, on the map aClients of the
\* key's shard: the map it leaves and the value it returns; aNow is the
\* time read as `now`, aSince the time read by time.Since
isAllowed(aClients, k, aNow, aSince) ==
    IF k \notin DOMAIN aClients
    THEN [ clients |-> MapPut(aClients, k, NewCounter(aNow)),
           allowed |-> TRUE ]
    ELSE LET c == aClients[k]
             e == aSince - c.windowStart
         IN  IF WindowExpired(e)
             THEN [ clients |-> [ aClients EXCEPT ![k] = Rollover(c, aNow) ],
                    allowed |-> TRUE ]
             ELSE IF WithinLimit(c, e)
             THEN [ clients |-> [ aClients EXCEPT ![k] = Admit(c) ],
                    allowed |-> TRUE ]
             ELSE [ clients |-> [ aClients EXCEPT ![k] = Deny(c) ],
                    allowed |-> FALSE ]

\* cleanShard on the map aClients: the entries del leaves
cleanShard(aClients, aThreshold) ==
    [ k \in { x \in DOMAIN aClients : ~IsStale(aClients[x], aThreshold) } |->
        aClients[k] ]

\* sl.isAllowed(k), from entry to return
SeqCall(k) ==
    /\ Len(calls) < MaxCalls
    /\ LET r == isAllowed(shards[getShard(k)].clients, k, clock, clock)
           q == isAllowed(twin, k, clock, clock)
       IN  /\ shards' = WithClients(getShard(k), r.clients)
           /\ blockedRequests' =
                  IF r.allowed THEN blockedRequests ELSE AddBlocked
           /\ twin' = q.clients
           /\ calls' = Append(calls, [ aIP |-> k, now |-> clock,
                                       allowed |-> r.allowed,
                                       twin |-> q.allowed ])
    /\ totalRequests' = AddTotal
    /\ UNCHANGED << resolverVars, windowVars, faultVars, raceVars, clock, maxRequests,
                    callerVars, sweeperVars, lastTouch, nAdmitted, stale,
                    readerVars, quiet >>

\* a tick is received and sl.cleanup() runs, from entry to return
SeqCleanup ==
    /\ clock >= nextTick
    /\ nextTick' = TickAfter(clock)
    /\ nSweeps' = nSweeps + 1
    /\ shards' = [ i \in DOMAIN shards |->
                     [ shards[i] EXCEPT
                         !.clients = cleanShard(@, Threshold(clock)) ] ]
    /\ UNCHANGED << resolverVars, windowVars, clock, maxRequests,
                    totalRequests, blockedRequests, callerVars,
                    spc, si, threshold, todo, scur,
                    lastTouch, nAdmitted, stale, readerVars, quiet,
                    seqVars, faultVars, raceVars >>

NextSeq ==
    \/ Tick
    \/ \E k \in Keys : SeqCall(k)
    \/ SeqCleanup

SpecSeq == Init /\ [][NextSeq]_vars

\* ------------------------------------------------------------ properties
AllIdle == \A t \in Callers : pc[t] = "idle"

\* calls that have been entered and have not returned
InFlight == { t \in Callers : pc[t] # "idle" }

\* calls that have been denied and have not returned
DeniedInFlight == { t \in Callers : pc[t] = "return" /\ ~allowed[t] }

\* the three fields of a counter
Fields(c) == << c.prevCount, c.currentCount, c.windowStart >>

\* the counter of key k
CounterAt(k) == shards[getShard(k)].clients[k]

\* what there is of key k: its counter with its lock, or nothing
CounterView(k) == IF k \in LiveKeys THEN { CounterAt(k) } ELSE {}

\* caller t takes the step of isAllowed that decides under the counter's lock
DecideStep(t) == pc[t] = "decide" /\ pc'[t] = "return"

\* C1: the first isAllowed call for a key without a counter returns true,
\* for every maxRequests (0 included), and creates the counter with
\* currentCount = 1, prevCount = 0 and windowStart = now.
C1_FirstRequestAllowed ==
    \A t \in Callers :
        (pc[t] = "return" /\ branch[t] = "new") =>
            /\ allowed[t]
            /\ aIP[t] \in LiveKeys
            /\ Fields(CounterOf(t)) = << 0, 1, now[t] >>

\* a first call has just created its counter under maxRequests = 0, at a
\* time after construction
C1_Witness ==
    \E t \in Callers :
        /\ pc[t] = "return" /\ branch[t] = "new"
        /\ maxRequests = 0 /\ now[t] > 0

\* C2: with maxRequests = N >= 1, once N requests of a fresh key have been
\* admitted (prevCount = 0, currentCount = N), one more call in the same
\* window is denied: no call that found currentCount = N is admitted.
C2_ExceedingBlocked ==
    \A t \in Callers :
        (/\ pc[t] = "return" /\ branch[t] = "window"
         /\ maxRequests >= 1
         /\ CounterOf(t).prevCount = 0) =>
            ~(allowed[t] /\ CounterOf(t).currentCount = maxRequests + 1)

\* C3: with maxRequests = N >= 1 the first N calls for a fresh key within
\* one window all return true: a call denied in the first window
\* (prevCount = 0) found at least N requests admitted before it.
C3_FirstNAllowed ==
    \A t \in Callers :
        (/\ pc[t] = "return" /\ branch[t] \in { "new", "window" }
         /\ maxRequests >= 1
         /\ CounterOf(t).prevCount = 0
         /\ ~allowed[t]) =>
            CounterOf(t).currentCount >= maxRequests

\* the second of two calls in the first window is admitted under
\* maxRequests = 2
C3_Witness ==
    \E t \in Callers :
        /\ pc[t] = "return" /\ branch[t] = "window" /\ allowed[t]
        /\ maxRequests = 2
        /\ Fields(CounterOf(t)) = << 0, 2, now[t] >>

\* C4: isolation.  The counter of a key B (its fields, its lock, its
\* presence in the map) is changed only by a step of an isAllowed call for
\* B or by the sweeper handling B, never by a call for another key; and
\* the decision of a call for B is a function of B's own counter and the
\* elapsed time it reads.  So two runs that agree on B's calls and their
\* times agree on B's decisions and counter, whatever is called for A.
C4_Isolation ==
    [][ /\ \A b \in Keys :
            CounterView(b)' # CounterView(b) =>
                \/ \E t \in Callers :
                    /\ aIP[t] = b
                    /\ pc[t] \in { "lookup", "lockCounter", "decide", "return" }
                    /\ pc'[t] # pc[t]
                \/ spc \in { "delLock", "delBody" } /\ scur = b /\ spc' # spc
        /\ \A t \in Callers :
            DecideStep(t) =>
                allowed'[t] = ( \/ WindowExpired(ElapsedOf(t))
                                \/ WithinLimit(CounterOf(t), ElapsedOf(t)) )
      ]_vars

\* a call is admitted after another key of the same shard has been
\* saturated and denied
C4_Witness ==
    \E t \in Callers, a \in LiveKeys :
        /\ pc[t] = "return" /\ allowed[t]
        /\ nFalse = 1
        /\ a # aIP[t]
        /\ getShard(a) = ShardOf(t)
        /\ CounterAt(a).currentCount > maxRequests

\* C5: a call that reads elapsed > windowDuration returns true whatever the
\* counts are; afterwards prevCount is the currentCount held before the
\* call, currentCount = 1 and windowStart = now.
C5_Rollover ==
    [][ \A t \in Callers :
            (DecideStep(t) /\ ElapsedOf(t) > windowDuration) =>
                /\ allowed'[t]
                /\ Fields(CounterOf(t))' =
                       << CounterOf(t).currentCount, 1, now[t] >>
      ]_vars

\* a rollover has carried a count of 2 into prevCount
C5_Witness ==
    \E t \in Callers :
        /\ pc[t] = "return" /\ branch[t] = "rollover"
        /\ CounterOf(t).prevCount = 2

C7_TotalCountsCalls ==
    /\ totalRequests = nTrue + nFalse + Cardinality(InFlight)
    /\ (mpc = "done" /\ quiet) => mres.TotalRequests = nTrue + nFalse

\* two calls for the same key overlap after a third has returned
C7_Witness ==
    /\ pc["t1"] # "idle" /\ pc["t2"] # "idle"
    /\ aIP["t1"] = aIP["t2"]
    /\ totalRequests = 3

\* C8: blockedRequests is the number of calls that were denied: a denial
\* adds exactly 1, an admission (new key, rollover, in-window) nothing; once
\* all calls have returned totalRequests = calls returned true +
\* blockedRequests.
C8_BlockedCountsDenials ==
    /\ blockedRequests = nFalse + Cardinality(DeniedInFlight)
    /\ AllIdle => totalRequests = nTrue + blockedRequests

\* all calls have returned, some admitted and one denied
C8_Witness ==
    AllIdle /\ nFalse = 1 /\ nTrue = 2 /\ blockedRequests = 1

\* C9: a GetMetrics call during which no isAllowed call and no sweep takes
\* a step returns ActiveClients = the number of keys that have a counter.
C9_ActiveClients ==
    (mpc = "done" /\ quiet) => mres.ActiveClients = Cardinality(LiveKeys)

\* a snapshot after the sweeper has removed the only counter
C9_Witness ==
    /\ mpc = "done" /\ quiet
    /\ nSweeps = 1 /\ nTrue = 1
    /\ mres.ActiveClients = 0

\* C10 as stated: a counter unused for at least 2 * windowDuration
\* (exactly 2 * windowDuration included) when a sweep starts, and not used
\* while the sweep runs, is gone when the sweep has finished.
C10_StaleRemovedAtLeast ==
    spc = "done" =>
        \A k \in Keys : stale[k] \in { "gt", "eq" } => k \notin LiveKeys

\* C10, amended: a counter unused for more than 2 * windowDuration when a
\* sweep starts, and not used while the sweep runs, is gone when the sweep
\* has finished.
C10_StaleRemoved ==
    spc = "done" =>
        \A k \in Keys : stale[k] = "gt" => k \notin LiveKeys

\* a sweep has finished that began with a counter unused for more than
\* 2 * windowDuration
C10_Witness ==
    spc = "done" /\ \E k \in Keys : stale[k] = "gt"

\* C11: a counter for which an isAllowed call (admitted or denied) was made
\* less than 2 * windowDuration before a sweep began is still in its shard's
\* map after that sweep: the sweeper deletes no such counter.
C11_ActiveKept ==
    (spc = "delBody" /\ IsStale(shards[si].clients[scur], threshold)) =>
        (threshold + (2 * windowDuration)) - lastTouch[scur]
            >= 2 * windowDuration

\* caller t takes the step in which isAllowed returns to the handler
ReturnStep(t) == pc[t] = "return" /\ pc'[t] = "idle"

\* C12: the handler of Wrap has three outcomes.  A request whose key cannot
\* be resolved is answered 403 without a call of isAllowed (totalRequests,
\* blockedRequests and all counters unchanged) and without the next handler;
\* a request isAllowed denies is answered 429 without the next handler; a
\* request isAllowed admits reaches the next handler exactly once; and no
\* other step answers a request or calls the next handler.
C12_ThreeOutcomes ==
    [][ /\ nForbidden' # nForbidden =>
            /\ nForbidden' = nForbidden + 1
            /\ UNCHANGED << totalRequests, blockedRequests, shards, pc,
                            nNext, nTooMany >>
        /\ \A t \in Callers :
            ReturnStep(t) =>
                /\ nForbidden' = nForbidden
                /\ allowed[t] => (nNext' = nNext + 1 /\ nTooMany' = nTooMany)
                /\ ~allowed[t] => (nNext' = nNext /\ nTooMany' = nTooMany + 1)
        /\ (\A t \in Callers : ~ReturnStep(t)) =>
                UNCHANGED << nNext, nTooMany >>
      ]_vars

\* one request has been answered 403, one 429 and one has been passed on
C12_Witness ==
    nForbidden = 1 /\ nTooMany = 1 /\ nNext = 1 /\ AllIdle

\* the texts getClientIP can return
AddressTexts == { << "a4" >>, << "b4" >>, << "a6" >>, << "a6p" >> }

\* text e is the address a, written with or without brackets around it
Spells(e, a) ==
    \E p \in 1 .. Len(e) : \E q \in p .. Len(e) :
        /\ \A k \in (1 .. (p - 1)) \cup ((q + 1) .. Len(e)) :
                e[k] \in { "[", "]" }
        /\ ParseIP(SubSeq(e, p, q)) # NilIP
        /\ a = << ParseIP(SubSeq(e, p, q)) >>

\* text e is the address a with spaces before and after it
SpellsPadded(e, a) ==
    \E l \in 0 .. Len(e) : \E r \in l .. Len(e) :
        /\ \A k \in (1 .. l) \cup ((r + 1) .. Len(e)) : e[k] = " "
        /\ Spells(SubSeq(e, l + 1, r), a)

\* v[i .. j] is an entry of the comma-separated list v
IsEntry(v, i, j) ==
    /\ i <= j + 1
    /\ i = 1 \/ v[i - 1] = ","
    /\ j = Len(v) \/ v[j + 1] = ","
    /\ \A k \in i .. j : v[k] # ","

\* a is the left-most valid address of the list v
LeftmostValid(v, a) ==
    \E i \in 1 .. (Len(v) + 1) : \E j \in 0 .. Len(v) :
        /\ IsEntry(v, i, j)
        /\ SpellsPadded(SubSeq(v, i, j), a)
        /\ \A i2 \in 1 .. (i - 1) : \A j2 \in 0 .. (i - 2) :
                IsEntry(v, i2, j2) =>
                    \A b \in AddressTexts : ~SpellsPadded(SubSeq(v, i2, j2), b)

\* r has the form host:port or [host]:port, and h is its host part
HostPart(r, h) ==
    \E i \in 1 .. Len(r) :
        /\ r[i] = ":p"
        /\ \/ /\ h = SubSeq(r, 1, i - 1)
              /\ \A k \in (1 .. Len(r)) \ {i} :
                    r[k] \notin ColonAtoms \cup { "[", "]" }
           \/ /\ i >= 3 /\ r[1] = "[" /\ r[i - 1] = "]"
              /\ h = SubSeq(r, 2, i - 2)
              /\ \A k \in 2 .. (i - 2) : r[k] \notin { "[", "]" }
              /\ \A k \in (i + 1) .. Len(r) :
                    r[k] \notin ColonAtoms \cup { "[", "]" }

\* the hosts r can be split into (one at most)
HostParts(r) ==
    { h \in { SubSeq(r, i, j) : i \in 1 .. 2, j \in 0 .. Len(r) } :
        HostPart(r, h) }

\* a is the address RemoteAddr r gives: its host part if r is host:port,
\* else r as a whole
PeerAddress(r, a) ==
    IF HostParts(r) # {} THEN \E h \in HostParts(r) : Spells(h, a)
    ELSE Spells(r, a)

C14_CountWithinLimit ==
    maxRequests >= 1 =>
        \A k \in LiveKeys : CounterAt(k).currentCount <= maxRequests

\* C15: with maxRequests = 0 the call that creates the counter of a key is
\* admitted and every further call for the key made before the window
\* expires (the in-window branch) is denied: each window of each key has
\* exactly one admitted request.
C15_ZeroLimit ==
    maxRequests = 0 =>
        /\ \A t \in Callers :
            pc[t] = "return" =>
                /\ branch[t] = "new" => allowed[t]
                /\ branch[t] = "window" => ~allowed[t]
        /\ \A k \in LiveKeys :
            CounterAt(k).currentCount = 1 /\ CounterAt(k).prevCount <= 1

\* under maxRequests = 0 the second call for a key, made in the window the
\* first one opened, has been denied
C15_Witness ==
    /\ maxRequests = 0
    /\ nTrue = 1
    /\ \E t \in Callers :
        /\ pc[t] = "return" /\ branch[t] = "window" /\ ~allowed[t]
        /\ Fields(CounterOf(t)) = << 0, 1, 0 >>
        /\ now[t] = windowDuration

\* the goroutines that take locks
Threads == Callers \cup { "sweeper", "reader" }

\* the shards and the counters whose lock goroutine th holds
ShardLocksHeld(th) == { i \in UsedShards : shards[i].mu = th }

CounterLocksHeld(th) == { k \in LiveKeys : CounterAt(k).mu = th }

\* no goroutine holds two shard locks or two counter locks, and a counter
\* lock is held only together with the lock of the counter's shard
LockDiscipline ==
    \A th \in Threads :
        /\ Cardinality(ShardLocksHeld(th)) <= 1
        /\ Cardinality(CounterLocksHeld(th)) <= 1
        /\ \A k \in CounterLocksHeld(th) : getShard(k) \in ShardLocksHeld(th)

\* C16: deadlock freedom.  Under every interleaving of isAllowed calls,
\* sweeps and GetMetrics calls no goroutine holds the locks of two shards or
\* of two counters at once, a counter lock is taken only by a goroutine
\* that holds the lock of the counter's shard (and no other counter lock),
\* and every isAllowed call, sweep and GetMetrics call that has begun
\* completes: each goroutine is again and again outside of its operation.
C16_DeadlockFree ==
    /\ []LockDiscipline
    /\ \A t \in Callers : []<>(pc[t] = "idle")
    /\ []<>(spc = "wait")
    /\ []<>(mpc = "idle")

\* a call waits for the lock of a shard that the sweeper holds together
\* with the lock of the counter the call is for
C16_Witness ==
    /\ spc = "delBody"
    /\ \E t \in Callers :
        pc[t] = "lockShard" /\ ShardOf(t) = si /\ aIP[t] = scur

\* the positions of isAllowed at which a call reads or writes the map entry
\* and the counter of its key
InCounterSection(t) == pc[t] \in { "lookup", "lockCounter", "decide", "return" }

\* calls for key k that have been admitted and have not returned
AdmittedInFlight(k) ==
    { t \in Callers : aIP[t] = k /\ pc[t] = "return" /\ allowed[t] }

\* C17: calls of isAllowed for one key are serialized: no two of them are
\* between the lookup and the return at once, so none reads a counter state
\* another one is working on; and while prevCount = 0 the currentCount of a
\* key is the number of calls admitted for it, none counted twice or lost.
C17_PerKeySerialized ==
    /\ \A t, u \in Callers :
        (t # u /\ aIP[t] = aIP[u]) =>
            ~(InCounterSection(t) /\ InCounterSection(u))
    /\ \A k \in LiveKeys :
        CounterAt(k).prevCount = 0 =>
            CounterAt(k).currentCount =
                nAdmitted[k] + Cardinality(AdmittedInFlight(k))

\* of two overlapping calls for one key one has been admitted as the second
\* request of the key and the other waits for the shard
C17_Witness ==
    \E t, u \in Callers :
        /\ aIP[t] = aIP[u]
        /\ pc[t] = "return" /\ allowed[t] /\ branch[t] = "window"
        /\ pc[u] = "lockShard"
        /\ Fields(CounterOf(t)) = << 0, 2, 0 >>
        /\ nAdmitted[aIP[t]] = 1

\* C18: the shard lock is held for the map lookup or insert only and is
\* released before the admission algorithm runs: a call that waits for its
\* counter's lock or works under it does not hold the lock of its shard (so
\* that calls for two keys of one shard can update their counters at the
\* same time).
C18_ShardLockBrief ==
    \A t \in Callers :
        pc[t] \in { "lockCounter", "decide" } => shards[ShardOf(t)].mu # t

\* C19: in the in-window branch (the counter exists and elapsed is at most
\* windowDuration) isAllowed returns true if and only if
\* floor(prevCount * (1 - elapsed/windowDuration)) + currentCount is at
\* most maxRequests; it then adds 1 to currentCount and changes nothing
\* else, and a denial changes nothing.
C19_InWindowRule ==
    wpc = "returned" =>
        LET c == probe.counter
            floor == (c.prevCount * (probe.windowDuration - probe.elapsed))
                         \div probe.windowDuration
        IN  /\ verdict.allowed = (floor + c.currentCount <= probe.maxRequests)
            /\ verdict.counter =
                   IF verdict.allowed
                   THEN [ c EXCEPT !.currentCount = c.currentCount + 1 ]
                   ELSE c

\* C20 as stated: whenever the in-window branch computes weightPrev, elapsed
\* lies between 0 and windowDuration and weightPrev lies in [0, 1): it is
\* never negative and never equal to 1.
C20_WeightBelowOne ==
    [][\A t \in Callers :
          Decide(t) /\ branch'[t] = "window" =>
              /\ 0 <= ElapsedOf(t)
              /\ ElapsedOf(t) <= windowDuration
              /\ F64ToInt(weightPrev(ElapsedOf(t), windowDuration)) = 0]_vars

\* C20: whenever the in-window branch computes weightPrev, elapsed lies
\* between 0 and windowDuration and weightPrev lies in the closed range
\* [0, 1]: it is never negative and never above 1, and it is 1 when
\* elapsed is 0.
C20_WeightRange ==
    [][\A t \in Callers :
          Decide(t) /\ branch'[t] = "window" =>
              /\ 0 <= ElapsedOf(t)
              /\ ElapsedOf(t) <= windowDuration
              /\ \/ F64ToInt(weightPrev(ElapsedOf(t), windowDuration)) = 0
                 \/ weightPrev(ElapsedOf(t), windowDuration) = F64FromInt(1)
              /\ ElapsedOf(t) = 0 =>
                     weightPrev(ElapsedOf(t), windowDuration) = F64FromInt(1)]_vars

\* a second call in the instant of a rollover has weighed the previous
\* window's count with weight 1
C20_Witness ==
    \E t \in Callers :
        /\ pc[t] = "return" /\ branch[t] = "window"
        /\ ElapsedOf(t) = 0
        /\ CounterOf(t).prevCount >= 1
        /\ weightPrev(ElapsedOf(t), windowDuration) = F64FromInt(1)

\* C21: for fixed prevCount and currentCount the weighted count does not
\* grow as elapsed grows from 0 to windowDuration, and at elapsed =
\* windowDuration it is currentCount; so a call denied at some elapsed
\* is denied at every smaller elapsed with the same counts.
C21_Monotone ==
    wpc = "returned" =>
        LET c == probe.counter
            w == probe.windowDuration
        IN  /\ \A e \in probe.elapsed .. w :
                   weightedCount(c.prevCount, c.currentCount, e, w)
                       <= weightedCount(c.prevCount, c.currentCount,
                                        probe.elapsed, w)
            /\ weightedCount(c.prevCount, c.currentCount, w, w)
                   = c.currentCount
            /\ ~verdict.allowed =>
                   \A e \in 0 .. probe.elapsed :
                       ~InWindow(w, probe.maxRequests, c, e).allowed

\* a call denied after part of the window has passed, when the previous
\* window weighs less than it did at the window's start
C21_Witness ==
    /\ wpc = "returned"
    /\ ~verdict.allowed
    /\ probe.elapsed > 0
    /\ weightedCount(probe.counter.prevCount, probe.counter.currentCount,
                     probe.elapsed, probe.windowDuration)
           < weightedCount(probe.counter.prevCount,
                           probe.counter.currentCount, 0,
                           probe.windowDuration)

\* C22: the windowStart of a counter never decreases and changes only in
\* a rollover, that is in an isAllowed call that saw elapsed >
\* windowDuration; so two successive values of it differ by more than
\* windowDuration.
C22_WindowStartAdvance ==
    [][\A k \in Keys :
          (k \in LiveKeys /\ k \in LiveKeys'
              /\ CounterAt(k)'.windowStart # CounterAt(k).windowStart) =>
              /\ CounterAt(k)'.windowStart > CounterAt(k).windowStart
              /\ \E t \in Callers :
                     /\ aIP[t] = k
                     /\ DecideStep(t)
                     /\ branch'[t] = "rollover"
                     /\ ElapsedOf(t) > windowDuration
              /\ CounterAt(k)'.windowStart - CounterAt(k).windowStart
                     > windowDuration]_vars

\* C23: in every state a key has at most one live counter, and it is in
\* the shard whose index is the sum of the key's bytes modulo 256, an index
\* in 0 .. 255 that depends on the key only; the shards are those made at
\* construction.
C23_OneCounterPerKey ==
    /\ DOMAIN shards = UsedShards
    /\ \A k \in Keys :
           /\ (SumBytes(k, 1) % 256) \in 0 .. 255
           /\ \A i \in DOMAIN shards :
                  k \in DOMAIN shards[i].clients => i = SumBytes(k, 1) % 256
           /\ Cardinality({ i \in DOMAIN shards :
                                k \in DOMAIN shards[i].clients }) <= 1

\* two keys that route to one shard have a counter each in it
C23_Witness ==
    /\ getShard(<< 49, 50 >>) = getShard(<< 50, 49 >>)
    /\ { << 49, 50 >>, << 50, 49 >> }
           \subseteq DOMAIN shards[getShard(<< 49, 50 >>)].clients
    /\ \A i \in DOMAIN shards \ { getShard(<< 49, 50 >>) } :
           DOMAIN shards[i].clients \cap { << 49, 50 >>, << 50, 49 >> } = {}

\* C24: whenever the sweeper deletes a counter, more than one
\* windowDuration has passed since the last isAllowed call (admitted or
\* denied) for its key: between the time that call read as its `now` and
\* both the time the sweep read for its threshold and the time of the
\* deletion.
C24_KeptOneWindow ==
    (spc = "delBody" /\ IsStale(shards[si].clients[scur], threshold)) =>
        /\ (threshold + (2 * windowDuration)) - lastTouch[scur]
               > windowDuration
        /\ clock - lastTouch[scur] > windowDuration

\* the sweeper is about to delete a counter that was used after its
\* window had started
C24_Witness ==
    /\ spc = "delBody"
    /\ IsStale(shards[si].clients[scur], threshold)
    /\ lastTouch[scur] > shards[si].clients[scur].windowStart

\* C25: cleanup does not change what isAllowed returns: every call gets
\* from the limiter whose cleanup runs the value it gets from a limiter
\* that is given the same calls at the same times and never deletes a
\* counter.
C25_SweepTransparent ==
    \A i \in 1 .. Len(calls) : calls[i].allowed = calls[i].twin

\* the calls for key k made before call i
CallsBefore(k, i) == { j \in 1 .. (i - 1) : calls[j].aIP = k }

\* C29: requests made more than 2 * windowDuration ago do not count: with
\* maxRequests >= 2, two calls made for a key in the same instant, the
\* second right after the first, are both admitted if every call made for
\* the key before them was made more than 2 * windowDuration earlier.
C29_OldRequestsForgotten ==
    \A i \in 1 .. Len(calls) : \A j \in (i + 1) .. Len(calls) :
        ( /\ maxRequests >= 2
          /\ calls[i].aIP = calls[j].aIP
          /\ calls[i].now = calls[j].now
          /\ CallsBefore(calls[j].aIP, j) \ CallsBefore(calls[i].aIP, i) = {i}
          /\ \A h \in CallsBefore(calls[i].aIP, i) :
                 calls[i].now - calls[h].now > 2 * windowDuration )
        => (calls[i].allowed /\ calls[j].allowed)

\* the mutexes the sweeper holds
SweeperLocks ==
    { << i >> : i \in { j \in UsedShards : shards[j].mu = "sweeper" } }
        \cup { x \in UsedShards \X Keys :
                 /\ x[2] \in DOMAIN shards[x[1]].clients
                 /\ shards[x[1]].clients[x[2]].mu = "sweeper" }

\* C26: a panic while del works on one counter is caught for that entry:
\* the sweeper goes on with the loop over the shard's counters holding the
\* shard's lock and no counter's lock, the counter stays in the map, the
\* sweep visits the remaining counters and shards (every other counter
\* unused for more than 2 * windowDuration is gone at its end) and ends
\* with all locks released, the program is not ended, and isAllowed calls
\* go on as without the panic.
C26_FaultIsolated ==
    faulted # NoKey =>
        /\ spc \in { "range", "delLock", "delBody", "lockShard", "done",
                      "wait" }
        /\ spc = "range" => SweeperLocks = { << si >> }
        /\ spc \in { "lockShard", "done", "wait" } => SweeperLocks = {}
        /\ spc = "done" =>
               \A k \in Keys \ { faulted } :
                   stale[k] = "gt" => k \notin LiveKeys
        /\ \A t \in Callers :
               pc[t] \in { "idle", "lockShard", "lookup", "lockCounter",
                           "decide", "return" }

\* a sweep has ended in which del panicked on one counter and deleted
\* another one
C26_Witness ==
    /\ faulted # NoKey
    /\ faulted \in LiveKeys
    /\ spc = "done"
    /\ \E k \in Keys \ { faulted } : stale[k] = "gt" /\ k \notin LiveKeys

\* C27: totalRequests and blockedRequests never decrease: every step
\* leaves each of them as it is or adds exactly 1 to it, and the steps of a
\* sweep and of GetMetrics leave both as they are.
C27_CountersMonotone ==
    [][/\ totalRequests' \in { totalRequests, totalRequests + 1 }
       /\ blockedRequests' \in { blockedRequests, blockedRequests + 1 }
       /\ (SweepStart \/ SweeperStep \/ MetricsStart \/ ReaderStep) =>
              UNCHANGED << totalRequests, blockedRequests >>]_vars

\* with one call admitted and one denied, a sweep is under way
C27_Witness ==
    /\ totalRequests = 2
    /\ blockedRequests = 1
    /\ spc \in { "range", "delLock", "delBody" }

\* C28: every step that reads or writes the fields of a counter of a
\* shard's map is taken by the holder of that counter's lock, and every
\* step that looks a key up in a shard's map, inserts into it, deletes from
\* it, iterates over it or reads its size is taken by the holder of that
\* shard's lock, in isAllowed, in the sweeper and in GetMetrics.
C28_LockDiscipline ==
    [][/\ \A t \in Callers :
              /\ Lookup(t) => shards[ShardOf(t)].mu = t
              /\ Decide(t) => CounterOf(t).mu = t
       /\ \A k \in Keys : SweepNext(k) => shards[si].mu = "sweeper"
       /\ SweepDelBody =>
              /\ shards[si].mu = "sweeper"
              /\ shards[si].clients[scur].mu = "sweeper"
       /\ MetricsLen => shards[mi].mu = "reader"
       /\ \A i \in UsedShards :
              /\ DOMAIN shards'[i].clients # DOMAIN shards[i].clients =>
                     shards[i].mu # NoOwner
              /\ \A k \in DOMAIN shards[i].clients
                              \cap DOMAIN shards'[i].clients :
                     Fields(shards'[i].clients[k])
                             # Fields(shards[i].clients[k]) =>
                         shards[i].clients[k].mu # NoOwner]_vars

\* a call works on its counter under the counter's lock while GetMetrics
\* waits for the lock of the shard
C28_Witness ==
    \E t \in Callers :
        /\ pc[t] = "decide"
        /\ CounterOf(t).mu = t
        /\ shards[ShardOf(t)].mu = t
        /\ mpc = "lockShard"
        /\ mi = ShardOf(t)

\* C30: in every state every counter of a shard's map has
\* 1 <= currentCount <= maxRequests + 1 and
\* 0 <= prevCount <= maxRequests + 1.
C30_CountBounds ==
    \A k \in LiveKeys :
        /\ 1 <= CounterAt(k).currentCount
        /\ CounterAt(k).currentCount <= maxRequests + 1
        /\ 0 <= CounterAt(k).prevCount
        /\ CounterAt(k).prevCount <= maxRequests + 1

\* after a rollover a counter has reached maxRequests + 1 in both counts
C30_Witness ==
    \E k \in LiveKeys :
        /\ CounterAt(k).currentCount = maxRequests + 1
        /\ CounterAt(k).prevCount = maxRequests + 1

\* C31: every TMetrics value GetMetrics returns, also when isAllowed calls
\* run while it works, has BlockedRequests <= TotalRequests.
C31_SnapshotConsistent ==
    mres # NoMetrics => mres.BlockedRequests <= mres.TotalRequests

\* C32: a sweep deletes a counter only if, when del inspects it holding
\* the shard's and the counter's lock, its windowStart is before the
\* threshold, and the threshold is the time the sweep began less
\* 2 * windowDuration, computed once for the sweep; a counter that an
\* isAllowed call has created or rolled over while the sweep runs is not
\* deleted by that sweep; and after a sweep during which no isAllowed call
\* was in progress every counter left has windowStart >= threshold.
C32_SweepRace ==
    [][/\ SweepStart => threshold' = clock - (2 * windowDuration)
       /\ spc \notin { "wait", "done" } => threshold' = threshold
       /\ \A k \in LiveKeys :
              k \notin LiveKeys' =>
                  /\ spc = "delBody"
                  /\ scur = k
                  /\ shards[getShard(k)].mu = "sweeper"
                  /\ CounterAt(k).mu = "sweeper"
                  /\ CounterAt(k).windowStart < threshold
                  /\ k \notin fresh
       /\ (spc = "done" /\ alone) =>
              \A k \in LiveKeys : CounterAt(k).windowStart >= threshold]_vars

====
